---------------------------- MODULE Spec2Model ----------------------------
(***************************************************************************)
(* A model of src/billa_scraper.py (class BillaScraper).                   *)
(*                                                                         *)
(* Text is a sequence of characters, each character a one-element string.  *)
(* Cyrillic letters are written in transliteration with a leading          *)
(* underscore ("_ts" is the letter tse, "_TS" its capital), the euro sign  *)
(* is "EUR".  None is the empty tuple and Some(x) the one-element tuple,   *)
(* so that an absent value never compares with a number or a text.         *)
(***************************************************************************)
EXTENDS Integers, Sequences, FiniteSets, TLC

None == <<>>
Some(x) == <<x>>
Val(o) == o[1]

Max(S) == CHOOSE x \in S : \A y \in S : y <= x

(***************************************************************************)
(* Characters.                                                             *)
(***************************************************************************)
Digits == {"0", "1", "2", "3", "4", "5", "6", "7", "8", "9"}
Spaces == {" ", "\t", "\n"}

\* str.lower() / re.IGNORECASE on the capital letters the inputs use.
LowerOf ==
  ("_TS" :> "_ts") @@ ("_S" :> "_s") @@ ("_SH" :> "_sh") @@ ("_P" :> "_p")
  @@ ("_CH" :> "_ch") @@ ("W" :> "w") @@ ("B" :> "b")

Lower(c) == IF c \in DOMAIN LowerOf THEN LowerOf[c] ELSE c

LowerText(text) == [j \in 1..Len(text) |-> Lower(text[j])]

DigitValue ==
  ("0" :> 0) @@ ("1" :> 1) @@ ("2" :> 2) @@ ("3" :> 3) @@ ("4" :> 4)
  @@ ("5" :> 5) @@ ("6" :> 6) @@ ("7" :> 7) @@ ("8" :> 8) @@ ("9" :> 9)

(***************************************************************************)
(* The regular expressions of the source are sequences of items: a literal *)
(* character, \d, \s or ".", each with a quantifier ("1", "?", "*", "+").  *)
(* An alternation is a set of such sequences.                              *)
(***************************************************************************)
Lit(c) == [kind |-> "lit", ch |-> c, q |-> "1"]
Opt(c) == [kind |-> "lit", ch |-> c, q |-> "?"]
DigitPlus == [kind |-> "digit", ch |-> "", q |-> "+"]
SpaceStar == [kind |-> "space", ch |-> "", q |-> "*"]
SpacePlus == [kind |-> "space", ch |-> "", q |-> "+"]
AnyStar == [kind |-> "any", ch |-> "", q |-> "*"]
Lits(text) == [j \in 1..Len(text) |-> Lit(text[j])]

Matches(c, item, ignorecase) ==
  CASE item.kind = "digit" -> c \in Digits
    [] item.kind = "space" -> c \in Spaces
    [] item.kind = "any" -> c # "\n"
    [] OTHER -> IF ignorecase THEN Lower(c) = Lower(item.ch) ELSE c = item.ch

\* The number of consecutive characters of s, from position i, that item takes.
RECURSIVE RunLen(_, _, _, _)
RunLen(s, i, item, ignorecase) ==
  IF i <= Len(s) /\ Matches(s[i], item, ignorecase)
  THEN 1 + RunLen(s, i + 1, item, ignorecase)
  ELSE 0

MinCount(item) == IF item.q \in {"1", "+"} THEN 1 ELSE 0
MaxCount(item, run) ==
  IF item.q \in {"1", "?"} THEN (IF run >= 1 THEN 1 ELSE 0) ELSE run

\* The positions right after a match of items k.. of re that starts at i.
RECURSIVE Ends(_, _, _, _, _)
Ends(re, s, i, k, ignorecase) ==
  IF k > Len(re) THEN {i}
  ELSE LET run == RunLen(s, i, re[k], ignorecase)
       IN UNION { Ends(re, s, i + n, k + 1, ignorecase) :
                    n \in MinCount(re[k])..MaxCount(re[k], run) }

AltEnds(alts, s, i, ignorecase) ==
  UNION { Ends(re, s, i, 1, ignorecase) : re \in alts }

\* re.search: the leftmost position where a match starts, 0 when there is none.
\* An anchored pattern (^) matches at position 1 only.
RECURSIVE SearchFrom(_, _, _, _)
SearchFrom(alts, s, i, ignorecase) ==
  IF i > Len(s) + 1 THEN 0
  ELSE IF AltEnds(alts, s, i, ignorecase) # {} THEN i
  ELSE SearchFrom(alts, s, i + 1, ignorecase)

Search(alts, s, ignorecase) == SearchFrom(alts, s, 1, ignorecase) # 0
MatchAtStart(alts, s, ignorecase) == AltEnds(alts, s, 1, ignorecase) # {}

\* re.sub(pattern, repl, s): the leftmost non-overlapping matches, each taken
\* greedily, replaced by repl.  None of the patterns matches the empty text,
\* and for each of them the greedy match is the longest one.
RECURSIVE SubFrom(_, _, _, _, _)
SubFrom(alts, repl, s, i, ignorecase) ==
  IF i > Len(s) THEN <<>>
  ELSE LET ends == AltEnds(alts, s, i, ignorecase)
       IN IF ends # {}
          THEN repl \o SubFrom(alts, repl, s, Max(ends), ignorecase)
          ELSE <<s[i]>> \o SubFrom(alts, repl, s, i + 1, ignorecase)

Sub(alts, repl, s, ignorecase) == SubFrom(alts, repl, s, 1, ignorecase)

\* str.strip()
RECURSIVE LStrip(_)
LStrip(s) == IF s # <<>> /\ Head(s) \in Spaces THEN LStrip(Tail(s)) ELSE s
RECURSIVE RStrip(_)
RStrip(s) ==
  IF s # <<>> /\ s[Len(s)] \in Spaces THEN RStrip(SubSeq(s, 1, Len(s) - 1)) ELSE s
Strip(s) == RStrip(LStrip(s))

(***************************************************************************)
(* clean_product_name                                                      *)
(***************************************************************************)
\* r'\d+\.\d+\s*(лв\.|€)'
PricePattern ==
  { <<DigitPlus, Lit("."), DigitPlus, SpaceStar>> \o Lits(<<"_l", "_v", ".">>),
    <<DigitPlus, Lit("."), DigitPlus, SpaceStar, Lit("EUR")>> }

\* r'цена\s*-?\s*'
LabelPattern ==
  { Lits(<<"_ts", "_e", "_n", "_a">>) \o <<SpaceStar, Opt("-"), SpaceStar>> }

\* r'\s+'
WhitespacePattern == { <<SpacePlus>> }

\* len(cleaned) > 3 and len(product_name.strip()) < 3
MinNameLen == 3
MinStripLen == 3

name_or_none_short(cleaned) ==
  IF Len(cleaned) > MinNameLen + 1 THEN Some(cleaned) ELSE None

\* return cleaned if len(cleaned) > 3 else None
name_or_none(cleaned) == IF Len(cleaned) > MinNameLen THEN Some(cleaned) ELSE None

clean_product_name(text) ==
  name_or_none(
    Strip(Sub(WhitespacePattern, <<" ">>,
              Sub(LabelPattern, <<>>, Sub(PricePattern, <<>>, text, FALSE), TRUE),
              FALSE)))

(***************************************************************************)
(* is_non_product                                                          *)
(***************************************************************************)
\* The patterns that start with ^ ...
AnchoredPatterns ==
  { \* ^празнувай.*billa
    Lits(<<"_p", "_r", "_a", "_z", "_n", "_u", "_v", "_a", "_j">>)
      \o <<AnyStar>> \o Lits(<<"b", "i", "l", "l", "a">>),
    \* ^\d+\s*години
    <<DigitPlus, SpaceStar>> \o Lits(<<"_g", "_o", "_d", "_i", "_n", "_i">>),
    \* ^валидност:
    Lits(<<"_v", "_a", "_l", "_i", "_d", "_n", "_o", "_s", "_t", ":">>),
    \* ^над\s*\d+\s*продукта
    Lits(<<"_n", "_a", "_d">>) \o <<SpaceStar, DigitPlus, SpaceStar>>
      \o Lits(<<"_p", "_r", "_o", "_d", "_u", "_k", "_t", "_a">>),
    \* ^\*.*виж повече
    <<Lit("*"), AnyStar>>
      \o Lits(<<"_v", "_i", "_zh", " ", "_p", "_o", "_v", "_e", "_ch", "_e">>),
    \* ^\*\*.*номерацията
    <<Lit("*"), Lit("*"), AnyStar>>
      \o Lits(<<"_n", "_o", "_m", "_e", "_r", "_a", "_ts", "_i", "_ya", "_t", "_a">>),
    \* ^мултипак оферта
    Lits(<<"_m", "_u", "_l", "_t", "_i", "_p", "_a", "_k", " ",
           "_o", "_f", "_e", "_r", "_t", "_a">>),
    \* ^предстояща брошура
    Lits(<<"_p", "_r", "_e", "_d", "_s", "_t", "_o", "_ya", "_sht", "_a", " ",
           "_b", "_r", "_o", "_sh", "_u", "_r", "_a">>),
    \* ^седмична брошура
    Lits(<<"_s", "_e", "_d", "_m", "_i", "_ch", "_n", "_a", " ",
           "_b", "_r", "_o", "_sh", "_u", "_r", "_a">>),
    \* ^обратно на училище
    Lits(<<"_o", "_b", "_r", "_a", "_t", "_n", "_o", " ", "_n", "_a", " ",
           "_u", "_ch", "_i", "_l", "_i", "_sht", "_e">>) }

\* ... and the one that does not: www\.billa\.bg
UnanchoredPatterns ==
  { Lits(<<"w", "w", "w", ".", "b", "i", "l", "l", "a", ".", "b", "g">>) }

is_non_product(text) ==
  LET text_lower == LowerText(text)
  IN \/ MatchAtStart(AnchoredPatterns, text_lower, TRUE)
     \/ Search(UnanchoredPatterns, text_lower, TRUE)


(***************************************************************************)
(* float(), int() and the discount pattern                                 *)
(***************************************************************************)
RECURSIVE DigitsToInt(_)
DigitsToInt(ds) ==
  IF ds = <<>> THEN 0
  ELSE 10 * DigitsToInt(SubSeq(ds, 1, Len(ds) - 1)) + DigitValue[ds[Len(ds)]]

AllDigits(ds) == \A j \in 1..Len(ds) : ds[j] \in Digits

\* The fraction digits as hundredths; the price texts carry at most two decimals.
Hundredths(ds) ==
  IF Len(ds) = 0 THEN 0
  ELSE IF Len(ds) = 1 THEN 10 * DigitValue[ds[1]]
  ELSE 10 * DigitValue[ds[1]] + DigitValue[ds[2]]

\* float(text) on the decimal texts [sign] digits [. digits]: the value in
\* hundredths, or a ValueError (ok = FALSE) on any other text.
ParseDecimal(negative, body) ==
  LET dots == {j \in 1..Len(body) : body[j] = "."}
      dot == IF dots = {} THEN Len(body) + 1 ELSE Max(dots)
      whole == SubSeq(body, 1, dot - 1)
      frac == SubSeq(body, dot + 1, Len(body))
  IN IF /\ Cardinality(dots) <= 1
        /\ AllDigits(whole) /\ AllDigits(frac)
        /\ Len(whole) + Len(frac) >= 1
     THEN [ok |-> TRUE,
           value |-> IF negative
                     THEN 0 - (100 * DigitsToInt(whole) + Hundredths(frac))
                     ELSE 100 * DigitsToInt(whole) + Hundredths(frac)]
     ELSE [ok |-> FALSE, value |-> 0]

ParseSigned(t) ==
  IF t # <<>> /\ t[1] \in {"-", "+"}
  THEN ParseDecimal(t[1] = "-", Tail(t))
  ELSE ParseDecimal(FALSE, t)

float(text) == ParseSigned(Strip(text))

\* r'-\s*(\d+)%'
DiscountPattern == { <<Lit("-"), SpaceStar, DigitPlus, Lit("%")>> }

\* re.search(r'-\s*(\d+)%', discount_text): group(1) of the leftmost match.
DiscountMatch(discount_text) ==
  LET start == SearchFrom(DiscountPattern, discount_text, 1, FALSE)
      first == start + 1 + RunLen(discount_text, start + 1, SpaceStar, FALSE)
      count == RunLen(discount_text, first, DigitPlus, FALSE)
  IN IF start = 0 THEN None
     ELSE Some(SubSeq(discount_text, first, first + count - 1))

(***************************************************************************)
(* extract_prices_from_container                                           *)
(*                                                                         *)
(* A container is what the queries of the source see of one                *)
(* <div class="product">: the text of its actualProduct div, the text of   *)
(* its discount div, and the texts of the price spans of its first         *)
(* width:21% div (wide) and of its first width:15% div (narrow); each is   *)
(* None when the div is missing.                                           *)
(***************************************************************************)
NoPrices == [old_price |-> None, new_price |-> None, discount |-> None]
ValueError == [raised |-> TRUE, prices |-> NoPrices]
Returned(prices) == [raised |-> FALSE, prices |-> prices]

discount_group(discount_match) ==
  IF discount_match = None THEN None ELSE Some(DigitsToInt(Val(discount_match)))

\* discount_div, discount_text, discount_match, prices['discount']
discount_of(container) ==
  IF container.discount = None THEN None
  ELSE discount_group(DiscountMatch(Val(container.discount)))

Spans(column) == IF column = None THEN <<>> ELSE Val(column)
FloatAt(spans, k) ==
  IF Len(spans) >= k THEN float(spans[k]) ELSE [ok |-> TRUE, value |-> 0]

new_price_section_skipped(discount, old_price, new_price_spans, third) ==
  Returned([old_price |-> old_price, new_price |-> None, discount |-> discount])

\* The width:15% section, reached when new_price is still None.
new_price_section(discount, old_price, new_price_spans, third) ==
  IF Len(new_price_spans) >= 1
  THEN IF ~third.ok THEN ValueError
       ELSE Returned([old_price |-> old_price, new_price |-> Some(third.value),
                      discount |-> discount])
  ELSE Returned([old_price |-> old_price, new_price |-> None, discount |-> discount])

old_price_section_then_new(discount, old_price_spans, first, second, new_price_spans) ==
  IF Len(old_price_spans) >= 1
  THEN IF ~first.ok \/ ~second.ok THEN ValueError
       ELSE new_price_section(discount, Some(first.value), new_price_spans,
                              FloatAt(new_price_spans, 1))
  ELSE new_price_section(discount, None, new_price_spans,
                         FloatAt(new_price_spans, 1))

\* The width:21% section: first and second are float() of its first two spans.
old_price_section(discount, old_price_spans, first, second, new_price_spans) ==
  IF Len(old_price_spans) >= 2
  THEN IF ~first.ok \/ ~second.ok THEN ValueError
       ELSE Returned([old_price |-> Some(first.value),
                      new_price |-> Some(second.value), discount |-> discount])
  ELSE IF Len(old_price_spans) = 1
  THEN IF ~first.ok THEN ValueError
       ELSE new_price_section(discount, Some(first.value), new_price_spans,
                              FloatAt(new_price_spans, 1))
  ELSE new_price_section(discount, None, new_price_spans,
                         FloatAt(new_price_spans, 1))

extract_prices_from_container(container) ==
  old_price_section(discount_of(container), Spans(container.wide),
                    FloatAt(Spans(container.wide), 1),
                    FloatAt(Spans(container.wide), 2), Spans(container.narrow))

(***************************************************************************)
(* The body of the loop of extract_products for one container: the         *)
(* components it calls, in order, how the iteration ends, and the record   *)
(* it builds (extracted_at is set when the record is appended).            *)
(***************************************************************************)
has_price_or_discount(prices) ==
  prices.old_price # None \/ prices.new_price # None \/ prices.discount # None

\* prices['old_price'] is not None or prices['new_price'] is not None
has_price(prices) == prices.old_price # None \/ prices.new_price # None

Currency == <<"_l", "_v", ".">>

Iteration(outcome, calls, record) ==
  [outcome |-> outcome, calls |-> calls, record |-> record]

ProductRecord(product_name, prices) ==
  [name |-> product_name, old_price |-> prices.old_price,
   new_price |-> prices.new_price, currency |-> Currency,
   discount_percent |-> prices.discount]

\* 'extracted_at': datetime.now().isoformat()
Stamped(record, at) ==
  [name |-> record.name, old_price |-> record.old_price,
   new_price |-> record.new_price, currency |-> record.currency,
   discount_percent |-> record.discount_percent, extracted_at |-> at]

CleanedName(container) ==
  IF container.actualProduct = None THEN None
  ELSE clean_product_name(Val(container.actualProduct))

assemble_locate_first(product_div, product_name, located) ==
  LET called == <<"extract_prices_from_container">>
  IN IF located.raised THEN Iteration("error", called, None)
     ELSE IF product_div = None
     THEN Iteration("no_actual", called \o <<"find_actualProduct">>, None)
     ELSE IF product_name = None
     THEN Iteration("no_name",
                    called \o <<"find_actualProduct", "clean_product_name">>, None)
     ELSE IF is_non_product(Val(product_name))
     THEN Iteration("non_product",
                    called \o <<"find_actualProduct", "clean_product_name",
                                "is_non_product">>, None)
     ELSE IF ~has_price(located.prices)
     THEN Iteration("no_price",
                    called \o <<"find_actualProduct", "clean_product_name",
                                "is_non_product">>, None)
     ELSE Iteration("record",
                    called \o <<"find_actualProduct", "clean_product_name",
                                "is_non_product">>,
                    Some(ProductRecord(Val(product_name), located.prices)))

\* Lines 43-68, given the div found, the cleaned name and the located prices.
assemble(product_div, product_name, located) ==
  IF product_div = None
  THEN Iteration("no_actual", <<"find_actualProduct">>, None)
  ELSE IF product_name = None \/ Len(Strip(Val(product_name))) < MinStripLen
  THEN Iteration("no_name", <<"find_actualProduct", "clean_product_name">>, None)
  ELSE IF is_non_product(Val(product_name))
  THEN Iteration("non_product",
                 <<"find_actualProduct", "clean_product_name", "is_non_product">>,
                 None)
  ELSE IF located.raised
  THEN Iteration("error",
                 <<"find_actualProduct", "clean_product_name", "is_non_product",
                   "extract_prices_from_container">>, None)
  ELSE IF ~has_price(located.prices)
  THEN Iteration("no_price",
                 <<"find_actualProduct", "clean_product_name", "is_non_product",
                   "extract_prices_from_container">>, None)
  ELSE Iteration("record",
                 <<"find_actualProduct", "clean_product_name", "is_non_product",
                   "extract_prices_from_container">>,
                 Some(ProductRecord(Val(product_name), located.prices)))

process_container_locate_first(container) ==
  assemble_locate_first(container.actualProduct, CleanedName(container),
                        extract_prices_from_container(container))

process_container(container) ==
  assemble(container.actualProduct, CleanedName(container),
           extract_prices_from_container(container))

\* products.append({...})
prepend_record(products, record) == <<record>> \o products
append_record(products, record) == Append(products, record)

\* except Exception as e: print(f"Error processing product: {e}"); continue
swallow_error(diagnostics, k) == diagnostics
log_error(diagnostics, k) == Append(diagnostics, k)

(***************************************************************************)
(* The documents the fetch may return.                                     *)
(***************************************************************************)
Container(actual, discount, wide, narrow) ==
  [actualProduct |-> actual, discount |-> discount, wide |-> wide, narrow |-> narrow]

\* "Шунка 300г 8.00 лв.", "Чай", "Седмична брошура"
HamText ==
  <<"_SH", "_u", "_n", "_k", "_a", " ", "3", "0", "0", "_g", " ",
    "8", ".", "0", "0", " ", "_l", "_v", ".">>
TeaText == <<"_CH", "_a", "_j">>
BrochureText ==
  <<"_S", "_e", "_d", "_m", "_i", "_ch", "_n", "_a", " ",
    "_b", "_r", "_o", "_sh", "_u", "_r", "_a">>

P800 == <<"8", ".", "0", "0">>
P640 == <<"6", ".", "4", "0">>
P750 == <<"7", ".", "5", "0">>
P620 == <<"6", ".", "2">>
PNeg == <<"-", "2", ".", "5", "0">>
PBad == <<"a", "b", "c">>
Minus20 == <<"-", "2", "0", "%">>
Minus150 == <<"-", " ", "1", "5", "0", "%">>

Containers ==
  { Container(None, None, Some(<<PBad>>), None),
    Container(Some(TeaText), None, Some(<<PBad>>), None),
    Container(Some(BrochureText), None, Some(<<PBad>>), None),
    Container(Some(HamText), Some(Minus20), Some(<<P800, P640>>), None),
    Container(Some(HamText), None, Some(<<P750>>), Some(<<P620>>)),
    Container(Some(HamText), Some(Minus20), None, None),
    Container(Some(HamText), None, Some(<<P750, PBad>>), None),
    Container(Some(HamText), Some(Minus150), None, Some(<<P620>>)),
    Container(Some(HamText), None, Some(<<PNeg>>), None) }

MaxContainers == 2

RECURSIVE SeqsUpTo(_, _)
SeqsUpTo(S, n) ==
  IF n = 0 THEN {<<>>}
  ELSE LET shorter == SeqsUpTo(S, n - 1)
       IN shorter \cup {Append(q, x) : q \in {r \in shorter : Len(r) = n - 1}, x \in S}

\* response.text: the empty text, or a text with some product containers.
Documents ==
  {[blank |-> TRUE, containers |-> <<>>]}
    \cup {[blank |-> FALSE, containers |-> d] : d \in SeqsUpTo(Containers, MaxContainers)}

(***************************************************************************)
(* State.                                                                  *)
(***************************************************************************)
VARIABLES
  pc,                 \* where the run is
  fetch_ok,           \* whether session.get retrieved the document
  html_content,       \* scrape: what fetch_page returned
  product_containers, \* extract_products: soup.find_all('div', class_='product')
  i,                  \* extract_products: the container the loop is at
  products,           \* extract_products: the records so far
  origins,            \* the container each record of products came from
  calls,              \* the components called for each container processed
  diagnostics,        \* the containers an "Error processing product" was printed for
  extract_calls,      \* the number of calls of extract_products
  now,                \* the clock datetime.now() reads: one tick per container
  persisted,          \* the files written
  result,             \* what scrape returned
  container,          \* the argument of a direct call of extract_prices_from_container
  located,            \* ... and what the call gave
  text,               \* the argument of a direct call of clean_product_name
  cleaned,            \* ... what the call gave
  recleaned           \* ... and what clean_product_name gave on that

vars ==
  <<pc, fetch_ok, html_content, product_containers, i, products, origins, calls,
    diagnostics, extract_calls, now, persisted, result, container, located, text,
    cleaned, recleaned>>

scrapeVars ==
  <<fetch_ok, html_content, product_containers, i, products, origins, calls,
    diagnostics, extract_calls, now, persisted, result>>
locatorVars == <<container, located>>
cleanVars == <<text, cleaned, recleaned>>

IdleScrape ==
  /\ fetch_ok = FALSE
  /\ html_content = None
  /\ product_containers = <<>>
  /\ i = 1
  /\ products = <<>>
  /\ origins = <<>>
  /\ calls = <<>>
  /\ diagnostics = <<>>
  /\ extract_calls = 0
  /\ now = 0
  /\ persisted = {}
  /\ result = None
IdleLocator ==
  /\ container = Container(None, None, None, None)
  /\ located = Returned(NoPrices)
IdleClean ==
  /\ text = <<>>
  /\ cleaned = None
  /\ recleaned = None

(***************************************************************************)
(* scrape                                                                  *)
(***************************************************************************)
Init ==
  /\ pc = "scrape"
  /\ IdleScrape /\ IdleLocator /\ IdleClean

\* fetch_page: response.text
FetchPageOk ==
  /\ pc = "scrape"
  /\ \E document \in Documents : html_content' = Some(document)
  /\ fetch_ok' = TRUE
  /\ pc' = "fetched"
  /\ UNCHANGED <<product_containers, i, products, origins, calls, diagnostics,
                 extract_calls, now, persisted, result, locatorVars, cleanVars>>

\* fetch_page: except requests.RequestException: return None
FetchPageError ==
  /\ pc = "scrape"
  /\ html_content' = None
  /\ fetch_ok' = FALSE
  /\ pc' = "fetched"
  /\ UNCHANGED <<product_containers, i, products, origins, calls, diagnostics,
                 extract_calls, now, persisted, result, locatorVars, cleanVars>>

\* not html_content: None and the empty text are both false
NotHtmlContent == IF html_content = None THEN TRUE ELSE Val(html_content).blank

\* if not html_content: print("Failed to fetch page content"); return []
ScrapeFailed ==
  /\ pc = "fetched"
  /\ NotHtmlContent
  /\ result' = Some(<<>>)
  /\ pc' = "done"
  /\ UNCHANGED <<fetch_ok, html_content, product_containers, i, products, origins,
                 calls, diagnostics, extract_calls, now, persisted, locatorVars, cleanVars>>

\* self.debug_html_structure(html_content)
DebugHtmlStructure ==
  /\ pc = "fetched"
  /\ ~NotHtmlContent
  /\ persisted' = persisted \cup {"debug_html.html"}
  /\ pc' = "debugged"
  /\ UNCHANGED <<fetch_ok, html_content, product_containers, i, products, origins,
                 calls, diagnostics, extract_calls, now, result, locatorVars, cleanVars>>

\* extract_products, up to the loop
ExtractProducts ==
  /\ pc = "debugged"
  /\ extract_calls' = extract_calls + 1
  /\ product_containers' = Val(html_content).containers
  /\ products' = <<>>
  /\ i' = 1
  /\ pc' = "loop"
  /\ UNCHANGED <<fetch_ok, html_content, origins, calls, diagnostics, now, persisted,
                 result, locatorVars, cleanVars>>

InLoop == pc = "loop" /\ i <= Len(product_containers)
Body == process_container(product_containers[i])

\* The loop moves on to the next container, whatever the iteration did.
Continue(body) ==
  /\ i' = i + 1
  /\ calls' = Append(calls, body.calls)
  /\ now' = now + 1
  /\ pc' = "loop"
  /\ UNCHANGED <<fetch_ok, html_content, product_containers, extract_calls,
                 persisted, result, locatorVars, cleanVars>>

Skip(body, outcome) ==
  /\ body.outcome = outcome
  /\ Continue(body)
  /\ UNCHANGED <<products, origins, diagnostics>>

Caught(body) ==
  /\ body.outcome = "error"
  /\ diagnostics' = log_error(diagnostics, i)
  /\ Continue(body)
  /\ UNCHANGED <<products, origins>>

Appended(body) ==
  /\ body.outcome = "record"
  /\ products' = append_record(products, Stamped(Val(body.record), now))
  /\ origins' = Append(origins, i)
  /\ Continue(body)
  /\ UNCHANGED diagnostics

\* if not product_div: continue
SkipNoActualProduct == InLoop /\ Skip(Body, "no_actual")

\* if not product_name or len(product_name.strip()) < 3: continue
SkipNoName == InLoop /\ Skip(Body, "no_name")

\* if self.is_non_product(product_name): continue
SkipNonProduct == InLoop /\ Skip(Body, "non_product")

\* except Exception as e: print(f"Error processing product: {e}"); continue
BlockError == InLoop /\ Caught(Body)

\* neither price: nothing is appended
DiscardNoPrice == InLoop /\ Skip(Body, "no_price")

\* products.append({...})
AppendProduct == InLoop /\ Appended(Body)

\* return products
ExtractProductsReturn ==
  /\ pc = "loop" /\ i > Len(product_containers)
  /\ pc' = "extracted"
  /\ UNCHANGED <<scrapeVars, locatorVars, cleanVars>>

\* if products: filename = self.save_to_json(products); return products
SaveToJson ==
  /\ pc = "extracted" /\ products # <<>>
  /\ persisted' = persisted \cup {"output/billa_brochure.json"}
  /\ result' = Some(products)
  /\ pc' = "done"
  /\ UNCHANGED <<fetch_ok, html_content, product_containers, i, products, origins,
                 calls, diagnostics, extract_calls, now, locatorVars, cleanVars>>

\* else: print("No products found. ..."); return products
NoProductsFound ==
  /\ pc = "extracted" /\ products = <<>>
  /\ result' = Some(products)
  /\ pc' = "done"
  /\ UNCHANGED <<fetch_ok, html_content, product_containers, i, products, origins,
                 calls, diagnostics, extract_calls, now, persisted, locatorVars, cleanVars>>

Next ==
  \/ FetchPageOk \/ FetchPageError \/ ScrapeFailed \/ DebugHtmlStructure
  \/ ExtractProducts
  \/ SkipNoActualProduct \/ SkipNoName \/ SkipNonProduct \/ BlockError
  \/ DiscardNoPrice \/ AppendProduct
  \/ ExtractProductsReturn \/ SaveToJson \/ NoProductsFound

Spec == Init /\ [][Next]_vars

(***************************************************************************)
(* extract_prices_from_container called on one container.                  *)
(***************************************************************************)
MaxWide == 3
MaxNarrow == 2

SpanTexts == {P800, P620, PBad}
DiscountTexts == {None, Some(Minus20)}
Columns(n) == {None} \cup {Some(spans) : spans \in SeqsUpTo(SpanTexts, n)}

LocatorContainers ==
  { Container(None, discount, wide, narrow) :
      discount \in DiscountTexts, wide \in Columns(MaxWide),
      narrow \in Columns(MaxNarrow) }

LocatorInit ==
  /\ pc = "locate"
  /\ container \in LocatorContainers
  /\ located = Returned(NoPrices)
  /\ IdleScrape /\ IdleClean

Locate ==
  /\ pc = "locate"
  /\ located' = extract_prices_from_container(container)
  /\ pc' = "located"
  /\ UNCHANGED <<container, scrapeVars, cleanVars>>

LocatorNext == Locate

LocatorSpec == LocatorInit /\ [][LocatorNext]_vars

(***************************************************************************)
(* clean_product_name called on a raw text, and again on what it gave.     *)
(***************************************************************************)
MaxFragments == 3

\* "1.", "1", "€", " ", "ab", "цена", "Це", "на"
Fragments ==
  { <<"1", ".">>, <<"1">>, <<"EUR">>, <<" ">>, <<"a", "b">>,
    <<"_ts", "_e", "_n", "_a">>, <<"_TS", "_e">>, <<"_n", "_a">> }

RECURSIVE Flatten(_)
Flatten(parts) == IF parts = <<>> THEN <<>> ELSE Head(parts) \o Flatten(Tail(parts))

RawTexts == { Flatten(parts) : parts \in SeqsUpTo(Fragments, MaxFragments) }

CleanInit ==
  /\ pc = "clean"
  /\ text \in RawTexts
  /\ cleaned = None
  /\ recleaned = None
  /\ IdleScrape /\ IdleLocator

Clean ==
  /\ pc = "clean"
  /\ cleaned' = clean_product_name(text)
  /\ pc' = "cleaned"
  /\ UNCHANGED <<text, recleaned, scrapeVars, locatorVars>>

CleanAgain ==
  /\ pc = "cleaned"
  /\ cleaned # None
  /\ recleaned' = clean_product_name(Val(cleaned))
  /\ pc' = "recleaned"
  /\ UNCHANGED <<text, cleaned, scrapeVars, locatorVars>>

CleanNext == Clean \/ CleanAgain

CleanSpec == CleanInit /\ [][CleanNext]_vars

(***************************************************************************)
(* Properties.                                                             *)
(***************************************************************************)
Range(f) == {f[k] : k \in DOMAIN f}
Processed == 1..Len(calls)
LocatorCall == "extract_prices_from_container"
StepOrder ==
  <<"find_actualProduct", "clean_product_name", "is_non_product", LocatorCall>>
IsPrefix(p, q) == Len(p) <= Len(q) /\ \A k \in 1..Len(p) : p[k] = q[k]
Unstamped(record) ==
  [name |-> record.name, old_price |-> record.old_price,
   new_price |-> record.new_price, currency |-> record.currency,
   discount_percent |-> record.discount_percent]
Finished == pc \in {"extracted", "done"} /\ extract_calls = 1
IsNumeric(span) == float(span).ok
NumericCount(spans) == Cardinality({k \in 1..Len(spans) : IsNumeric(spans[k])})

\* C1: every record of the list extract_products builds has an old price or a
\* new price, and a container for which the Price Locator returns neither
\* price yields no record, with or without a discount.
AcceptanceInvariant ==
  /\ \A k \in 1..Len(products) :
       products[k].old_price # None \/ products[k].new_price # None
  /\ \A j \in Processed :
       LocatorCall \in Range(calls[j])
         => LET r == extract_prices_from_container(product_containers[j])
            IN (~r.raised /\ r.prices.old_price = None /\ r.prices.new_price = None)
                 => j \notin Range(origins)

\* A kept name, a discount found, neither price: the container was dropped,
\* and another container of the same document gave a record.
AcceptanceWitness ==
  /\ pc = "done"
  /\ products # <<>>
  /\ \E j \in Processed :
       /\ LocatorCall \in Range(calls[j])
       /\ j \notin Range(origins) /\ j \notin Range(diagnostics)
       /\ discount_of(product_containers[j]) # None

\* The records the containers cs[j..] yield, each container taken alone.
RECURSIVE RecordsOf(_, _)
RecordsOf(cs, j) ==
  IF j > Len(cs) THEN <<>>
  ELSE LET body == process_container(cs[j])
       IN (IF body.outcome = "record" THEN body.record ELSE <<>>)
            \o RecordsOf(cs, j + 1)

Without(cs, k) == [j \in 1..(Len(cs) - 1) |-> IF j < k THEN cs[j] ELSE cs[j + 1]]
Occurrences(q, x) == Cardinality({k \in 1..Len(q) : q[k] = x})
LocatorRaises(c) ==
  LET body == process_container(c) IN body.outcome = "error"

\* C2: a container on which the Price Locator raises a parse failure yields
\* no record and exactly one diagnostic, the loop has gone through every
\* container when extract_products returns, and the records returned are
\* those of the document without that container.
FaultIsolation ==
  /\ Len(calls) = i - 1
  /\ Finished => Len(calls) = Len(product_containers)
  /\ \A k \in Processed :
       IF LocatorCall \in Range(calls[k]) /\ LocatorRaises(product_containers[k])
       THEN /\ k \notin Range(origins)
            /\ Occurrences(diagnostics, k) = 1
            /\ Finished =>
                 [n \in 1..Len(products) |-> Unstamped(products[n])]
                   = RecordsOf(Without(product_containers, k), 1)
       ELSE k \notin Range(diagnostics)

\* The first container failed in the Price Locator, the second gave a record.
FaultIsolationWitness ==
  /\ pc = "done"
  /\ diagnostics = <<1>>
  /\ origins = <<2>>
  /\ Len(products) = 1

\* C5: the records are in the order of the containers that produced them, at
\* most one per container, each the record of its container, and a step of
\* the loop leaves the records already in the list as they are.
DocumentOrder ==
  /\ [](/\ Len(origins) = Len(products)
        /\ \A k \in 1..Len(origins) :
             /\ origins[k] \in Processed
             /\ \A m \in 1..Len(origins) : k < m => origins[k] < origins[m]
             /\ Some(Unstamped(products[k]))
                  = process_container(product_containers[origins[k]]).record)
  /\ [][pc = "loop" => IsPrefix(products, products')]_vars

\* Two containers, two different records, in the order of the containers.
DocumentOrderWitness ==
  /\ pc = "done"
  /\ origins = <<1, 2>>
  /\ Unstamped(products[1]) # Unstamped(products[2])

\* C6 as stated: a failed fetch ends the run with an empty result, no call of
\* extract_products and nothing written, and a fetch that succeeds leads to
\* exactly one call of extract_products.
TransportFailure ==
  /\ extract_calls <= 1
  /\ pc = "done" /\ ~fetch_ok
       => result = Some(<<>>) /\ extract_calls = 0 /\ persisted = {}
  /\ pc = "done" /\ fetch_ok => extract_calls = 1

\* C7 as stated: the discount of a record is absent or between 0 and 100.
DiscountRange ==
  \A k \in 1..Len(products) :
    \/ products[k].discount_percent = None
    \/ Val(products[k].discount_percent) \in 0..100

\* C8 as stated: the prices of a record are absent or not negative.
PriceSign ==
  \A k \in 1..Len(products) :
    /\ products[k].old_price = None \/ Val(products[k].old_price) >= 0
    /\ products[k].new_price = None \/ Val(products[k].new_price) >= 0

\* The container has no actualProduct div, or its name is absent after
\* cleaning, or the classifier excludes the name.
EarlyDiscard(c) ==
  IF c.actualProduct = None THEN TRUE
  ELSE LET name == clean_product_name(Val(c.actualProduct))
       IN IF name = None THEN TRUE ELSE is_non_product(Val(name))

HasBadSpan(c) ==
  \E k \in 1..Len(Spans(c.wide)) : ~IsNumeric(Spans(c.wide)[k])

\* C10: the components are called in the order lookup, normalizer, classifier,
\* Price Locator; a container discarded by one of the first three yields no
\* record, no call of the Price Locator and no diagnostic; every record has a
\* name longer than 3 that the classifier keeps.
EarlyDiscardFirst ==
  /\ \A j \in Processed :
       /\ IsPrefix(calls[j], StepOrder)
       /\ EarlyDiscard(product_containers[j])
            => /\ j \notin Range(origins)
               /\ LocatorCall \notin Range(calls[j])
               /\ j \notin Range(diagnostics)
  /\ \A k \in 1..Len(products) :
       Len(products[k].name) > 3 /\ ~is_non_product(products[k].name)

\* A container without actualProduct and one with an excluded name, both with
\* a non-numeric price span, went through without a diagnostic.
EarlyDiscardWitness ==
  /\ pc = "done"
  /\ diagnostics = <<>>
  /\ \A j \in Processed : HasBadSpan(product_containers[j])
  /\ \E j \in Processed : calls[j] = <<"find_actualProduct">>
  /\ \E j \in Processed : calls[j] = SubSeq(StepOrder, 1, 3)

ValueOf(span) == Some(float(span).value)
WideSpans == Spans(container.wide)
NarrowSpans == Spans(container.narrow)
Min(S) == CHOOSE x \in S : \A y \in S : x <= y
FirstNumeric(spans) ==
  LET numeric == {k \in 1..Len(spans) : IsNumeric(spans[k])}
  IN IF numeric = {} THEN None ELSE ValueOf(spans[Min(numeric)])

\* Whatever the narrow column holds, the call gives the same.
NarrowIgnored ==
  \A narrow \in Columns(MaxNarrow) :
    extract_prices_from_container([container EXCEPT !.narrow = narrow]) = located

FirstTwoOfWide ==
  /\ ~located.raised
  /\ located.prices.old_price = ValueOf(WideSpans[1])
  /\ located.prices.new_price = ValueOf(WideSpans[2])
  /\ NarrowIgnored

\* C3 as stated: when the wide column holds two or more numeric spans, the old
\* price is the first span, the new price the second, and the narrow column
\* changes neither the result nor whether the call fails.
ReconciliationAsStated ==
  pc = "located" /\ NumericCount(WideSpans) >= 2 => FirstTwoOfWide

\* C3, amended: the same when the wide column holds two or more spans and the
\* first two are numeric.
Reconciliation ==
  (/\ pc = "located"
   /\ Len(WideSpans) >= 2
   /\ IsNumeric(WideSpans[1]) /\ IsNumeric(WideSpans[2])) => FirstTwoOfWide

\* Wide [8.00, 6.2, ...], narrow [abc]: 8.00 and 6.2, no failure.
ReconciliationWitness ==
  /\ pc = "located"
  /\ Len(WideSpans) >= 2 /\ WideSpans[1] = P800 /\ WideSpans[2] = P620
  /\ container.narrow = Some(<<PBad>>)
  /\ located.prices.old_price = Some(800)
  /\ located.prices.new_price = Some(620)

\* C4 as stated: when the wide column is missing, holds no span or holds
\* exactly one numeric span, the new price is the first numeric value of the
\* narrow column, absent when it has none, and the old price is the single
\* value of the wide column, absent when there is none.
FallbackAsStated ==
  (/\ pc = "located"
   /\ \/ container.wide = None
      \/ WideSpans = <<>>
      \/ NumericCount(WideSpans) = 1)
    => /\ ~located.raised
       /\ located.prices.new_price = FirstNumeric(NarrowSpans)
       /\ located.prices.old_price = FirstNumeric(WideSpans)

\* C4, amended: when the wide column is missing, holds no span or holds one
\* span and that span is numeric, the new price is the first span of the
\* narrow column, the call fails when that span is not numeric, the new price
\* is absent when the narrow column is missing or empty; the old price is the
\* span of the wide column, absent when there is none.
Fallback ==
  (/\ pc = "located"
   /\ \/ container.wide = None
      \/ WideSpans = <<>>
      \/ Len(WideSpans) = 1 /\ IsNumeric(WideSpans[1]))
    => IF NarrowSpans # <<>> /\ ~IsNumeric(NarrowSpans[1]) THEN located.raised
       ELSE /\ ~located.raised
            /\ located.prices.new_price =
                 (IF NarrowSpans = <<>> THEN None ELSE ValueOf(NarrowSpans[1]))
            /\ located.prices.old_price =
                 (IF WideSpans = <<>> THEN None ELSE ValueOf(WideSpans[1]))

\* Wide [8.00], narrow [6.2, abc]: old 8.00, new 6.2.
FallbackWitness ==
  /\ pc = "located"
  /\ container.wide = Some(<<P800>>)
  /\ container.narrow = Some(<<P620, PBad>>)
  /\ located.prices.old_price = Some(800)
  /\ located.prices.new_price = Some(620)

LabelWord == { Lits(<<"_ts", "_e", "_n", "_a">>) }
NoEmbeddedPrice(t) == ~Search(PricePattern, t, FALSE)
NoLabelPrefix(t) == ~MatchAtStart(LabelWord, t, TRUE)
NoLabel(t) == ~Search(LabelWord, t, TRUE)
SingleSpaced(t) ==
  \A k \in 1..Len(t) :
    t[k] \in Spaces => t[k] = " " /\ 1 < k /\ k < Len(t) /\ t[k + 1] \notin Spaces
\* A name is longer than 3, as the name of every record is.
IsName(t) == Len(t) > 3
CleanAsStated(t) ==
  IsName(t) /\ NoEmbeddedPrice(t) /\ NoLabelPrefix(t) /\ SingleSpaced(t)
AlreadyClean(t) == IsName(t) /\ NoEmbeddedPrice(t) /\ NoLabel(t) /\ SingleSpaced(t)

\* C9 as stated: a name with no embedded price, not starting with the label,
\* single-spaced and trimmed comes back unchanged, and cleaning what a first
\* cleaning gave changes nothing.
IdempotenceAsStated ==
  /\ pc \in {"cleaned", "recleaned"} /\ CleanAsStated(text) => cleaned = Some(text)
  /\ pc = "recleaned" => recleaned = cleaned

\* C9, amended: a name with no embedded price, the label nowhere in it,
\* single-spaced and trimmed comes back unchanged, and so does what a first
\* cleaning gave when it is such a name.
Idempotence ==
  /\ pc \in {"cleaned", "recleaned"} /\ AlreadyClean(text) => cleaned = Some(text)
  /\ pc = "recleaned" /\ AlreadyClean(Val(cleaned)) => recleaned = cleaned

\* A clean two-word name went through twice unchanged.
IdempotenceWitness ==
  /\ pc = "recleaned"
  /\ AlreadyClean(text)
  /\ " " \in Range(text)
  /\ recleaned = Some(text)

=============================================================================
